---------------------------- MODULE Spec2Model ----------------------------
(***************************************************************************)
(* A model of remove_images.py: the reference extractor (two regular       *)
(* expressions over the text of a document), the inventory of a media      *)
(* directory, the archiver process_directory and the driver main.          *)
(*                                                                         *)
(* Texts and file names are TLA+ strings; the regular expressions are      *)
(* evaluated character by character, as re.findall evaluates them.         *)
(***************************************************************************)
EXTENDS Integers, Sequences, FiniteSets, TLC

(***************************************************************************)
(* Bounds of the model.                                                    *)
(***************************************************************************)
\* the number of fragments a composed text is made of (SpecExtract)
MaxParts == 4
\* the number of calls of process_directory on one directory (SpecArchiver)
MaxCalls == 2
\* the number of entries a media directory starts with (SpecArchiver)
MaxMedia == 3

(***************************************************************************)
(* Strings.                                                                *)
(***************************************************************************)
\* s[i .. i+Len(lit)-1] = lit: the literal lit stands at position i of s
At(s, i, lit) ==
    /\ i >= 1
    /\ i + Len(lit) - 1 <= Len(s)
    /\ SubSeq(s, i, i + Len(lit) - 1) = lit

\* '.' of a regular expression (no DOTALL flag): any character but a newline
NoNewline(s, lo, hi) == \A p \in lo..hi : SubSeq(s, p, p) # "\n"

\* the character class ["\'] of the HTML expression
IsQuote(s, i) == At(s, i, "\"") \/ At(s, i, "'")

Min(S) == CHOOSE m \in S : \A o \in S : m <= o

(***************************************************************************)
(* extract_media_references: the Markdown expression                       *)
(*     !\[.*?\]\(images/(.*?)\)                                            *)
(* A match that starts at i is "![" , a shortest run of non-newline        *)
(* characters, "](images/", the group (a shortest run of non-newline       *)
(* characters) and ")". The lazy quantifiers make the engine take the      *)
(* least j, then the least k, for which the rest matches.                  *)
(***************************************************************************)
\* the positions k of a ")" that can close a group starting at g
MdClose(s, g) ==
    { k \in g..Len(s) : NoNewline(s, g, k - 1) /\ At(s, k, ")") }

\* the positions j of a "](images/" that can follow the "![" at i
MdMiddle(s, i) ==
    { j \in (i + 2)..Len(s) :
        /\ NoNewline(s, i + 2, j - 1)
        /\ At(s, j, "](images/")
        /\ MdClose(s, j + 9) # {} }

MdMatchesAt(s, i) == At(s, i, "![") /\ MdMiddle(s, i) # {}

\* MdMatch with the group opened before the prefix: !\[.*?\]\((images/.*?)\)
MdMatchKeepingPrefix(s, i) ==
    LET j == Min(MdMiddle(s, i))
        k == Min(MdClose(s, j + 9))
    IN  [group |-> SubSeq(s, j + 2, k - 1), next |-> k + 1]

\* the match at i: the group's text and the position after the match
MdMatch(s, i) ==
    LET j == Min(MdMiddle(s, i))
        k == Min(MdClose(s, j + 9))
    IN  [group |-> SubSeq(s, j + 9, k - 1), next |-> k + 1]

\* re.findall(r'!\[.*?\]\(images/(.*?)\)', s): the groups of the non-overlapping
\* matches, leftmost first (from[p]: those of the matches found from p on)
MdFindall(s) ==
    LET from[p \in 1..(Len(s) + 1)] ==
            LET starts == { i \in p..Len(s) : MdMatchesAt(s, i) }
            IN  IF starts = {} THEN << >>
                ELSE LET m == MdMatch(s, Min(starts))
                     IN  << m.group >> \o from[m.next]
    IN  from[1]

md_references(md_content) == MdFindall(md_content)

(***************************************************************************)
(* extract_media_references: the HTML expression                           *)
(*   (?:<img|<video|<audio|<source).*?src=["\']images/(.*?)[\'"].*?>       *)
(***************************************************************************)
HtmlTags == {"<img", "<video", "<audio", "<source"}

\* the positions m of a ">" that can end a match whose group closed at k
HtmlEnd(s, k) ==
    { m \in (k + 1)..Len(s) : NoNewline(s, k + 1, m - 1) /\ At(s, m, ">") }

\* the positions k of a quote (either kind) that can close a group starting at g
HtmlClose(s, g) ==
    { k \in g..Len(s) :
        /\ NoNewline(s, g, k - 1)
        /\ IsQuote(s, k)
        /\ HtmlEnd(s, k) # {} }

\* the positions j of a src=<quote>images/ that can follow a tag name ending
\* before a
HtmlSrc(s, a) ==
    { j \in a..Len(s) :
        /\ NoNewline(s, a, j - 1)
        /\ At(s, j, "src=")
        /\ IsQuote(s, j + 4)
        /\ At(s, j + 5, "images/")
        /\ HtmlClose(s, j + 12) # {} }

HtmlMatchesAt(s, i) ==
    \E t \in HtmlTags : At(s, i, t) /\ HtmlSrc(s, i + Len(t)) # {}

HtmlMatch(s, i) ==
    LET t == CHOOSE t \in HtmlTags : At(s, i, t) /\ HtmlSrc(s, i + Len(t)) # {}
        j == Min(HtmlSrc(s, i + Len(t)))
        k == Min(HtmlClose(s, j + 12))
        m == Min(HtmlEnd(s, k))
    IN  [group |-> SubSeq(s, j + 12, k - 1), next |-> m + 1]

HtmlFindall(s) ==
    LET from[p \in 1..(Len(s) + 1)] ==
            LET starts == { i \in p..Len(s) : HtmlMatchesAt(s, i) }
            IN  IF starts = {} THEN << >>
                ELSE LET m == HtmlMatch(s, Min(starts))
                     IN  << m.group >> \o from[m.next]
    IN  from[1]

html_references(md_content) == HtmlFindall(md_content)

Range(f) == { f[x] : x \in DOMAIN f }

\* set(md_references + html_references)
extract_media_references(md_content) ==
    Range(md_references(md_content) \o html_references(md_content))

(***************************************************************************)
(* The file system. The project holds the language directories Dirs, each  *)
(* with documents outside its media directory (docs), possibly a media     *)
(* directory en/images (images, media) and possibly en/images/archive      *)
(* (the entry "archive" of media; archive holds its entries).              *)
(*                                                                         *)
(* An entry of a directory is a file or a directory. origin names the      *)
(* place the entry had in the initial tree and so tells one file from      *)
(* another of the same name; text is a file's content, inner the texts of  *)
(* the .md files a directory holds (a directory with inner = {} is empty). *)
(***************************************************************************)
Dirs == {"A", "B"}
\* with nested, directory Inner lies below directory Outer (Outer/x/en),
\* outside Outer's media directory
Outer == "A"
Inner == "B"

Platforms == {"posix", "nt"}

FileEntry(where, name, text) ==
    [origin |-> << where, name >>, kind |-> "file", text |-> text, inner |-> {}]

DirEntry(where, name, inner) ==
    [origin |-> << where, name >>, kind |-> "dir", text |-> "", inner |-> inner]

\* the entry en/images/archive
ArchiveEntry == DirEntry("media", "archive", {})

\* the function with the pairs << name, value >> of P
MkFn(P) == [n \in { q[1] : q \in P } |-> (CHOOSE q \in P : q[1] = n)[2]]

Without(f, n) == [m \in DOMAIN f \ {n} |-> f[m]]

With(f, n, v) == [m \in DOMAIN f \cup {n} |-> IF m = n THEN v ELSE f[m]]

\* file.endswith('.md')
EndsWithMd(file) ==
    Len(file) >= 3 /\ SubSeq(file, Len(file) - 2, Len(file)) = ".md"

\* the readable .md files os.walk finds in or below an entry of a directory
EntryTexts(name, e) ==
    IF e.kind = "file"
    THEN IF EndsWithMd(name) THEN {e.text} ELSE {}
    ELSE e.inner

\* DocFiles with the walk pruned at the archive folder
DocFilesSkippingArchive(t) ==
    { t.docs[n] : n \in { m \in DOMAIN t.docs : EndsWithMd(m) } }
    \cup { [text |-> x, readable |-> TRUE] :
             x \in UNION { EntryTexts(n, t.media[n]) : n \in DOMAIN t.media } }

\* the .md files os.walk(en_directory) finds in a language directory with
\* tree t, as records [text, readable]; the files in the media directory and
\* in its archive are among them
DocFiles(t) ==
    { t.docs[n] : n \in { m \in DOMAIN t.docs : EndsWithMd(m) } }
    \cup { [text |-> x, readable |-> TRUE] :
             x \in UNION { EntryTexts(n, t.media[n]) : n \in DOMAIN t.media } }
    \cup { [text |-> x, readable |-> TRUE] :
             x \in UNION { EntryTexts(n, t.archive[n]) : n \in DOMAIN t.archive } }

(***************************************************************************)
(* State.                                                                  *)
(***************************************************************************)
VARIABLES
    platform,           \* the platform os.rename runs on
    fs,                 \* the tree of every language directory
    nested,             \* whether Inner lies below Outer
    repo_directory,     \* main: the path read from the prompt
    main_pc,            \* main: where it stands
    exit_status,        \* main: the exit status of the program, "none" while it runs
    pending,            \* main: the 'en' directories os.walk has yet to reach
    pc,                 \* process_directory: where it stands
    en_directory,       \* process_directory: its argument
    all_files,          \* process_directory: local
    referenced_files,   \* process_directory: local
    unreferenced_files, \* process_directory: local
    todo,               \* process_directory: the names the for loop has yet to take
    error,              \* the exception that ended process_directory, "none" if none
    moved_count,        \* the count of the last "Moved ... files" message
    calls,              \* the calls of process_directory made so far
    pre,                \* history: fs when the current call began
    moved,              \* history: the names the current call has renamed
    replaced,           \* history: the archive entries the current call's renames replaced
    log,                \* history: one record per ended call
    document,           \* the text extract_media_references is applied to
    n_parts,            \* the number of fragments document is composed of
    all_references      \* extract_media_references: its result

vars == << platform, fs, nested, repo_directory, main_pc, exit_status, pending,
           pc, en_directory, all_files, referenced_files, unreferenced_files,
           todo, error, moved_count, calls, pre, moved, replaced, log,
           document, n_parts, all_references >>

fs_vars == << platform, fs, nested >>
main_vars == << repo_directory, main_pc, exit_status, pending >>
local_vars == << all_files, referenced_files, unreferenced_files, todo >>
extract_vars == << document, n_parts, all_references >>

(***************************************************************************)
(* get_all_files                                                           *)
(***************************************************************************)
KeepNames == {".keep", "banner.png"}

\* get_all_files without its filter
get_all_files_unfiltered(media) == DOMAIN media

\* set(file for file in os.listdir(media_dir) if file not in {".keep", "banner.png"})
get_all_files(media) == { file \in DOMAIN media : file \notin KeepNames }

(***************************************************************************)
(* The contents the documents of the model have.                           *)
(***************************************************************************)
\* document texts
TextNone == ""
TextMarkdown == "![alt](images/a.png)"
TextVideo == "<video src=\"images/clip.mp4\" controls></video>"
TextKept == "![b](images/banner.png) <img alt='x' src='images/archive'> <source src=\"images/notes.md\">"

DocTexts == {TextNone, TextMarkdown, TextVideo, TextKept}

\* extract_media_references on each of the model's document texts
References ==
    (TextNone :> extract_media_references(TextNone))
    @@ (TextMarkdown :> extract_media_references(TextMarkdown))
    @@ (TextVideo :> extract_media_references(TextVideo))
    @@ (TextKept :> extract_media_references(TextKept))


(***************************************************************************)
(* process_directory                                                       *)
(***************************************************************************)
\* the .md files below en_directory d; below Outer lie those of a nested Inner
DocFilesUnder(f, d) ==
    DocFiles(f[d])
    \cup (IF nested /\ d = Outer THEN DocFiles(f[Inner]) ELSE {})

\* AllReadable of a walk that skips the files it cannot read
AllReadableOrSkipped(docfiles) == TRUE

\* open(...) and f.read() succeed on every .md file of the walk
AllReadable(docfiles) == \A doc \in docfiles : doc.readable

\* referenced_files after the walk: the union of
\* extract_media_references(content) over the files read
ReferenceUnion(docfiles) ==
    UNION { References[doc.text] : doc \in docfiles }

\* Unreferenced without the references: all_files - {'archive'}
UnreferencedIgnoringReferences(files, referenced) == files \ {"archive"}

\* Unreferenced without the archive folder's name: all_files - referenced_files
UnreferencedWithArchive(files, referenced) == files \ referenced

\* all_files - referenced_files - {'archive'}
Unreferenced(files, referenced) == (files \ referenced) \ {"archive"}

\* MakeDirs as os.mkdir does it: no missing parent is created
MakeDirsWithoutParents(t) ==
    IF t.images
    THEN [t EXCEPT !.media = With(t.media, "archive", ArchiveEntry)]
    ELSE t

\* os.makedirs(archive_dir): archive is created, and images when it is missing
MakeDirs(t) ==
    [t EXCEPT !.images = TRUE,
              !.media = With(t.media, "archive", ArchiveEntry)]

\* Renamed as a removal of src
RenamedAway(t, file) == [t EXCEPT !.media = Without(t.media, file)]

\* the tree after os.rename(media_dir/file, archive_dir/file) succeeded
Renamed(t, file) ==
    [t EXCEPT !.media = Without(t.media, file),
              !.archive = With(t.archive, file, t.media[file])]

\* what os.rename(src, dst) does: "moved" (dst was free), "replaced" (dst is
\* replaced by src) or "error" (an OSError is raised and nothing changes).
\* On Windows an existing dst is an error; on POSIX a file replaces a file, a
\* directory replaces an empty directory, and every other pair is an error.
RenameOutcome(plat, src, dst_exists, dst) ==
    IF ~dst_exists THEN "moved"
    ELSE IF plat = "nt" THEN "error"
    ELSE IF src.kind = "file" /\ dst.kind = "file" THEN "replaced"
    ELSE IF src.kind = "dir" /\ dst.kind = "dir" /\ dst.inner = {} THEN "replaced"
    ELSE "error"

\* Call with referenced_files kept from the call before (a set shared by
\* the calls)
CallSharingReferences(d) ==
    /\ pc' = "ensure_archive"
    /\ en_directory' = d
    /\ all_files' = {}
    /\ referenced_files' = referenced_files
    /\ unreferenced_files' = {}
    /\ todo' = {}
    /\ error' = "none"
    /\ calls' = calls + 1
    /\ pre' = fs
    /\ moved' = {}
    /\ replaced' = {}

\* the call process_directory(d); referenced_files = set() is the one local
\* the code initialises before it is assigned
Call(d) ==
    /\ pc' = "ensure_archive"
    /\ en_directory' = d
    /\ all_files' = {}
    /\ referenced_files' = {}
    /\ unreferenced_files' = {}
    /\ todo' = {}
    /\ error' = "none"
    /\ calls' = calls + 1
    /\ pre' = fs
    /\ moved' = {}
    /\ replaced' = {}

\* the record the history keeps of the call that ends with this step (a step
\* that ends a call changes neither the tree nor the call's sets)
Ended(ok) ==
    [dir |-> en_directory, ok |-> ok, before |-> pre, after |-> fs,
     unreferenced |-> unreferenced_files, moved |-> moved,
     replaced |-> replaced]

\* if not os.path.exists(archive_dir): os.makedirs(archive_dir)
\* (makedirs creates the missing parents: images itself when it is absent)
EnsureArchive ==
    /\ pc = "ensure_archive"
    /\ LET t == fs[en_directory]
       IN  fs' = IF "archive" \in DOMAIN t.media
                 THEN fs
                 ELSE [fs EXCEPT ![en_directory] = MakeDirs(t)]
    /\ pc' = "list"
    /\ UNCHANGED << platform, nested, main_vars, en_directory, local_vars, error,
                    moved_count, calls, pre, moved, replaced, log, extract_vars >>

\* all_files = get_all_files(media_dir); os.listdir raises FileNotFoundError
\* when media_dir does not exist
ListFiles ==
    /\ pc = "list"
    /\ LET t == fs[en_directory]
       IN  IF t.images
           THEN /\ all_files' = get_all_files(t.media)
                /\ pc' = "scan"
                /\ error' = "none"
                /\ log' = log
           ELSE /\ all_files' = all_files
                /\ pc' = "raised"
                /\ error' = "listdir"
                /\ log' = Append(log, Ended(FALSE))
    /\ UNCHANGED << fs_vars, main_vars, en_directory, referenced_files,
                    unreferenced_files, todo, moved_count, calls, pre, moved,
                    replaced, extract_vars >>

\* the walk over en_directory: every .md file is opened, read and its
\* references added; a file that cannot be read raises
ScanDocs ==
    /\ pc = "scan"
    /\ LET docfiles == DocFilesUnder(fs, en_directory)
       IN  IF AllReadable(docfiles)
           THEN /\ referenced_files' = referenced_files \cup ReferenceUnion(docfiles)
                /\ pc' = "diff"
                /\ error' = "none"
                /\ log' = log
           ELSE /\ referenced_files' = referenced_files
                /\ pc' = "raised"
                /\ error' = "read"
                /\ log' = Append(log, Ended(FALSE))
    /\ UNCHANGED << fs_vars, main_vars, en_directory, all_files,
                    unreferenced_files, todo, moved_count, calls, pre, moved,
                    replaced, extract_vars >>

\* unreferenced_files = all_files - referenced_files - {'archive'}
Diff ==
    /\ pc = "diff"
    /\ unreferenced_files' = Unreferenced(all_files, referenced_files)
    /\ todo' = Unreferenced(all_files, referenced_files)
    /\ pc' = "move"
    /\ UNCHANGED << fs_vars, main_vars, en_directory, all_files, referenced_files,
                    error, moved_count, calls, pre, moved, replaced, log,
                    extract_vars >>

\* one turn of: for file in unreferenced_files: os.rename(src, dst)
\* (a set is iterated in no particular order)
MoveOne ==
    /\ pc = "move"
    /\ \E file \in todo :
         LET t == fs[en_directory]
             src == t.media[file]
             dst_exists == file \in DOMAIN t.archive
             dst == IF dst_exists THEN t.archive[file] ELSE src
             outcome == IF file \in DOMAIN t.media /\ file # "archive"
                        THEN RenameOutcome(platform, src, dst_exists, dst)
                        ELSE "error"
         IN  IF outcome = "error"
             THEN /\ fs' = fs
                  /\ todo' = todo
                  /\ moved' = moved
                  /\ replaced' = replaced
                  /\ pc' = "raised"
                  /\ error' = "rename"
                  /\ log' = Append(log, Ended(FALSE))
             ELSE /\ fs' = [fs EXCEPT ![en_directory] = Renamed(t, file)]
                  /\ todo' = todo \ {file}
                  /\ moved' = moved \cup {file}
                  /\ replaced' = IF outcome = "replaced"
                                 THEN replaced \cup {dst}
                                 ELSE replaced
                  /\ pc' = "move"
                  /\ error' = "none"
                  /\ log' = log
    /\ UNCHANGED << platform, nested, main_vars, en_directory, all_files,
                    referenced_files, unreferenced_files, moved_count, calls,
                    pre, extract_vars >>

\* logging.info(f"Moved {len(unreferenced_files)} files to {archive_dir}")
Report ==
    /\ pc = "move"
    /\ todo = {}
    /\ moved_count' = Cardinality(unreferenced_files)
    /\ pc' = "returned"
    /\ log' = Append(log, Ended(TRUE))
    /\ UNCHANGED << fs_vars, main_vars, en_directory, local_vars, error, calls,
                    pre, moved, replaced, extract_vars >>

process_directory == EnsureArchive \/ ListFiles \/ ScanDocs \/ Diff \/ MoveOne \/ Report

(***************************************************************************)
(* main                                                                    *)
(***************************************************************************)
\* the paths the prompt may be answered with: the project, and a path that
\* does not exist
Paths == {"repo", "missing"}

\* Exists that takes every path to exist
ExistsAlways(path) == TRUE

\* os.path.exists(repo_directory)
Exists(path) == path = "repo"

\* the directories named 'en' that os.walk(repo_directory) reaches
EnDirsUnder(path) == IF path = "repo" THEN Dirs ELSE {}

\* repo_directory = input(...)
MainInput ==
    /\ main_pc = "input"
    /\ \E path \in Paths : repo_directory' = path
    /\ main_pc' = "check"
    /\ UNCHANGED << fs_vars, exit_status, pending, pc, en_directory, local_vars,
                    error, moved_count, calls, pre, moved, replaced, log,
                    extract_vars >>

\* if not os.path.exists(repo_directory): logging.error(...); sys.exit(1)
MainCheck ==
    /\ main_pc = "check"
    /\ IF Exists(repo_directory)
       THEN /\ main_pc' = "walk"
            /\ exit_status' = exit_status
            /\ pending' = EnDirsUnder(repo_directory)
       ELSE /\ main_pc' = "exited"
            /\ exit_status' = << 1 >>
            /\ pending' = pending
    /\ UNCHANGED << fs_vars, repo_directory, pc, en_directory, local_vars, error,
                    moved_count, calls, pre, moved, replaced, log, extract_vars >>

\* for root, dirs, _ in os.walk(repo_directory): ... process_directory(en_directory)
\* The walk is top-down: a directory below another is reached after it;
\* siblings are reached in the order os.listdir gives, which is arbitrary.
MainProcess ==
    /\ main_pc = "walk"
    /\ pc \in {"idle", "returned"}
    /\ \E d \in pending :
         /\ (nested /\ d = Inner) => Outer \notin pending
         /\ pending' = pending \ {d}
         /\ Call(d)
    /\ UNCHANGED << fs_vars, repo_directory, main_pc, exit_status, moved_count,
                    log, extract_vars >>

\* an exception of process_directory is caught nowhere: the program ends with
\* a traceback and exit status 1
MainCrash ==
    /\ main_pc = "walk"
    /\ pc = "raised"
    /\ main_pc' = "crashed"
    /\ exit_status' = << 1 >>
    /\ UNCHANGED << fs_vars, repo_directory, pending, pc, en_directory,
                    local_vars, error, moved_count, calls, pre, moved, replaced,
                    log, extract_vars >>

\* the walk is over: the reminder is logged and the program ends (status 0)
MainFinish ==
    /\ main_pc = "walk"
    /\ pc \in {"idle", "returned"}
    /\ pending = {}
    /\ main_pc' = "finished"
    /\ exit_status' = << 0 >>
    /\ UNCHANGED << fs_vars, repo_directory, pending, pc, en_directory,
                    local_vars, error, moved_count, calls, pre, moved, replaced,
                    log, extract_vars >>

(***************************************************************************)
(* The initial trees.                                                      *)
(***************************************************************************)
Doc(text, readable) == [text |-> text, readable |-> readable]

\* the documents of a language directory outside its media directory
IndexDocs(texts) ==
    { MkFn({<< "index.md", Doc(x, TRUE) >>}) : x \in texts }
    \cup { MkFn({<< "index.md", Doc(TextNone, FALSE) >>}) }

DistinctNames(P) == \A q, r \in P : q[1] = r[1] => q = r

MediaCandidates ==
    { << ".keep", FileEntry("media", ".keep", "") >>,
      << "banner.png", FileEntry("media", "banner.png", "") >>,
      << "a.png", FileEntry("media", "a.png", "") >>,
      << "clip.mp4", FileEntry("media", "clip.mp4", "") >>,
      << "notes.md", FileEntry("media", "notes.md", TextNone) >>,
      << "notes.md", FileEntry("media", "notes.md", TextMarkdown) >>,
      << "sub", DirEntry("media", "sub", {}) >>,
      << "sub", DirEntry("media", "sub", {TextMarkdown}) >> }

ArchiveCandidates ==
    { << "a.png", FileEntry("archive", "a.png", "") >>,
      << "notes.md", FileEntry("archive", "notes.md", TextNone) >>,
      << "notes.md", FileEntry("archive", "notes.md", TextMarkdown) >>,
      << "sub", DirEntry("archive", "sub", {}) >>,
      << "sub", DirEntry("archive", "sub", {TextNone}) >> }

Tree(images, media, archive, docs) ==
    [images |-> images, media |-> media, archive |-> archive, docs |-> docs]

EmptyDir == MkFn({})

\* a language directory without a media directory
TreesWithoutImages(docs) == { Tree(FALSE, EmptyDir, EmptyDir, d) : d \in docs }

\* a language directory whose media directory holds the entries P and, with
\* Q given, an archive folder with the entries Q
TreesOf(mediasets, archivesets, docs) ==
    { Tree(TRUE, MkFn(P), EmptyDir, d) : P \in mediasets, d \in docs }
    \cup { Tree(TRUE, With(MkFn(P), "archive", ArchiveEntry), MkFn(Q), d) :
             P \in mediasets, Q \in archivesets, d \in docs }

\* the trees process_directory is called on in SpecArchiver
RichTrees ==
    TreesWithoutImages(IndexDocs({TextNone}))
    \cup TreesOf({ P \in SUBSET MediaCandidates :
                     Cardinality(P) <= MaxMedia /\ DistinctNames(P) },
                 { Q \in SUBSET ArchiveCandidates : DistinctNames(Q) },
                 IndexDocs(DocTexts))

\* the trees of the two language directories in Spec
PlainCandidates ==
    { q \in MediaCandidates : q[1] \in {"a.png", "banner.png"} }

PlainTrees ==
    TreesWithoutImages(IndexDocs({TextNone}))
    \cup TreesOf(SUBSET PlainCandidates,
                 { Q \in SUBSET ArchiveCandidates :
                     \A q \in Q : q[1] = "a.png" },
                 IndexDocs({TextNone, TextMarkdown}))

\* the state before anything runs
Idle ==
    /\ repo_directory = ""
    /\ exit_status = << >>
    /\ pending = {}
    /\ pc = "idle"
    /\ en_directory = ""
    /\ all_files = {}
    /\ referenced_files = {}
    /\ unreferenced_files = {}
    /\ todo = {}
    /\ error = "none"
    /\ moved_count = 0
    /\ calls = 0
    /\ pre = fs
    /\ moved = {}
    /\ replaced = {}
    /\ log = << >>
    /\ document = ""
    /\ n_parts = 0
    /\ all_references = {}

(***************************************************************************)
(* Spec: the program, main on a project with two language directories.     *)
(***************************************************************************)
Init ==
    /\ platform \in Platforms
    /\ nested \in BOOLEAN
    /\ fs \in [Dirs -> PlainTrees]
    /\ main_pc = "input"
    /\ Idle

Next ==
    \/ MainInput
    \/ MainCheck
    \/ MainProcess
    \/ MainCrash
    \/ MainFinish
    \/ process_directory

Spec == Init /\ [][Next]_vars

(***************************************************************************)
(* SpecArchiver: process_directory called MaxCalls times in succession on  *)
(* one language directory, with nothing else touching the tree.            *)
(***************************************************************************)
Subject == "A"

ArchiverCall ==
    /\ main_pc = "off"
    /\ pc \in {"idle", "returned", "raised"}
    /\ calls < MaxCalls
    /\ Call(Subject)
    /\ UNCHANGED << fs_vars, main_vars, moved_count, log, extract_vars >>

InitArchiver ==
    /\ platform \in Platforms
    /\ nested = FALSE
    /\ \E t \in RichTrees :
         fs = [d \in Dirs |->
                 IF d = Subject THEN t
                 ELSE Tree(FALSE, EmptyDir, EmptyDir,
                           MkFn({<< "index.md", Doc(TextNone, TRUE) >>}))]
    /\ main_pc = "off"
    /\ Idle

NextArchiver == ArchiverCall \/ process_directory

SpecArchiver == InitArchiver /\ [][NextArchiver]_vars

(***************************************************************************)
(* SpecExtract: extract_media_references applied to the texts composed of  *)
(* at most MaxParts fragments.                                             *)
(***************************************************************************)
Fragments ==
    { "![", "](images/", "images/", "a.png", ")", "<img src='images/", "'",
      ">", "\n" }

\* one more fragment is appended to the text and the references of the text
\* are extracted
ComposeAndExtract ==
    /\ n_parts < MaxParts
    /\ \E part \in Fragments :
         /\ document' = document \o part
         /\ all_references' = extract_media_references(document \o part)
    /\ n_parts' = n_parts + 1
    /\ UNCHANGED << fs_vars, main_vars, pc, en_directory, local_vars, error,
                    moved_count, calls, pre, moved, replaced, log >>

InitExtract ==
    /\ platform = "posix"
    /\ nested = FALSE
    /\ fs = [d \in Dirs |->
               Tree(FALSE, EmptyDir, EmptyDir,
                    MkFn({<< "index.md", Doc(TextNone, TRUE) >>}))]
    /\ main_pc = "off"
    /\ Idle

NextExtract == ComposeAndExtract

SpecExtract == InitExtract /\ [][NextExtract]_vars

(***************************************************************************)
(* Properties.                                                             *)
(***************************************************************************)
\* the tree of the directory of the current (or last) call, now and when the
\* call began
Now == fs[en_directory]
Before == pre[en_directory]

\* the names that have left the media directory since the call began
LeftMedia == { n \in DOMAIN Before.media : n \notin DOMAIN Now.media }

\* entry n of the media directory as it was when the call began is still in
\* the media directory / is now in the archive folder under the same name
StillInMedia(n) == n \in DOMAIN Now.media /\ Now.media[n] = Before.media[n]
NowInArchive(n) ==
    /\ n \notin DOMAIN Now.media
    /\ n \in DOMAIN Now.archive
    /\ Now.archive[n] = Before.media[n]

\* the media directory as os.listdir sees it: the archive folder exists by then
ListedBefore == With(Before.media, "archive", ArchiveEntry)

\* the references of all the .md files under the directory when the call began
ReferencedBefore == ReferenceUnion(DocFilesUnder(pre, en_directory))

\* C1: every entry a call of process_directory has moved from media_dir into
\* archive_dir was in the inventory get_all_files returned and in the
\* references of no .md file under the language directory when the
\* unreferenced set was computed.
C1_MovedWereUnreferenced ==
    pc # "idle" =>
        /\ moved = LeftMedia
        /\ \A n \in moved :
             /\ n \in get_all_files(ListedBefore)
             /\ n \notin ReferencedBefore
             /\ n \in all_files
             /\ n \notin referenced_files
             /\ NowInArchive(n)

C1_Witness ==
    /\ pc = "returned"
    /\ moved # {}
    /\ all_files \cap referenced_files # {}

\* C2: when process_directory has returned, every inventory name no .md file
\* references (but 'archive') is in archive_dir under its name, every
\* referenced and every allow-listed name is still in media_dir, and the count
\* reported is the number of entries moved.
C2_ReturnedPostcondition ==
    pc = "returned" =>
        /\ \A n \in (get_all_files(Before.media) \ ReferencedBefore) \ {"archive"} :
             NowInArchive(n)
        /\ \A n \in DOMAIN Before.media :
             (n \in ReferencedBefore \/ n \in {".keep", "banner.png"})
                 => StillInMedia(n)
        /\ moved_count = Cardinality(LeftMedia)

\* a.png referenced, clip.mp4 not, banner.png kept: one file moved
C2_Witness ==
    /\ pc = "returned"
    /\ DOMAIN Before.media = {"a.png", "clip.mp4", "banner.png"}
    /\ ReferencedBefore = {"a.png"}
    /\ DOMAIN Now.media = {"a.png", "banner.png", "archive"}
    /\ NowInArchive("clip.mp4")
    /\ moved_count = 1

\* call i + 1 of process_directory moved nothing and left the tree as call i
\* left it
Repeats(i) ==
    /\ log[i + 1].ok
    /\ log[i + 1].unreferenced = {}
    /\ log[i + 1].moved = {}
    /\ log[i + 1].after = log[i].after

\* C3: a call of process_directory that follows a call which completed finds
\* the unreferenced set empty and leaves the tree as it found it, for every
\* initial tree (.md files and subdirectories in the media directory included).
C3_SecondRunIsNoop ==
    \A i \in 1..(Len(log) - 1) : log[i].ok => Repeats(i)

\* C4: '.keep', 'banner.png' and 'archive' never leave media_dir: the
\* inventory never holds '.keep' or 'banner.png', the unreferenced set never
\* holds 'archive', whether or not a document references these names.
C4_KeptNamesStay ==
    /\ all_files \cap {".keep", "banner.png"} = {}
    /\ unreferenced_files \cap {".keep", "banner.png", "archive"} = {}
    /\ moved \cap {".keep", "banner.png", "archive"} = {}
    /\ pc # "idle" =>
         \A n \in {".keep", "banner.png", "archive"} :
             n \in DOMAIN Before.media => StillInMedia(n)

\* both allow-listed files are present, banner.png referenced and .keep not,
\* and another entry has been moved
C4_Witness ==
    /\ pc = "returned"
    /\ {".keep", "banner.png"} \subseteq DOMAIN Before.media
    /\ "banner.png" \in referenced_files
    /\ ".keep" \notin referenced_files
    /\ moved # {}

\* the trees before the first call of process_directory
Initial == IF Len(log) > 0 THEN log[1].before ELSE pre

\* entry n of the media directory of d has been moved to the archive folder
Archived(d, n) ==
    /\ n \notin DOMAIN fs[d].media
    /\ n \in DOMAIN fs[d].archive
    /\ fs[d].archive[n] = Initial[d].media[n]

\* some .md file under d references n
ReferencedUnder(d, n) == n \in ReferenceUnion(DocFilesUnder(Initial, d))

\* C5 as stated: after the run, in each of the two 'en' directories an entry
\* of the media directory is archived if and only if no .md file under that
\* directory references its name.
C5_ArchivedIffUnreferenced ==
    main_pc = "finished" =>
        \A d \in Dirs : \A n \in DOMAIN Initial[d].media :
            Archived(d, n) <=> ~ReferencedUnder(d, n)

\* C5, amended: the same of every entry but '.keep', 'banner.png' and
\* 'archive', which stay where they are; the .md files under a directory
\* include those of an 'en' directory below it.
C5_InventoryArchivedIffUnreferenced ==
    main_pc = "finished" =>
        \A d \in Dirs : \A n \in DOMAIN Initial[d].media :
            IF n \in {".keep", "banner.png", "archive"}
            THEN n \in DOMAIN fs[d].media /\ fs[d].media[n] = Initial[d].media[n]
            ELSE Archived(d, n) <=> ~ReferencedUnder(d, n)

\* a.png is in both media directories, referenced under one directory only:
\* archived where it is unreferenced, kept in the other
C5_Witness ==
    /\ main_pc = "finished"
    /\ \E a, b \in Dirs :
         /\ a # b
         /\ "a.png" \in DOMAIN Initial[a].media
         /\ "a.png" \in DOMAIN Initial[b].media
         /\ ~ReferencedUnder(a, "a.png")
         /\ ReferencedUnder(b, "a.png")
         /\ Archived(a, "a.png")
         /\ "a.png" \in DOMAIN fs[b].media

\* C6: the tool only relocates: every entry that was in the media directory
\* or in its archive folder before the call is afterwards at its place or at
\* archive_dir/<same name>, and the files outside the media directory are
\* unchanged.
C6_OnlyRelocates ==
    pc # "idle" =>
        /\ \A n \in DOMAIN Before.media : StillInMedia(n) \/ NowInArchive(n)
        /\ \A n \in DOMAIN Before.archive :
             n \in DOMAIN Now.archive /\ Now.archive[n] = Before.archive[n]
        /\ Now.docs = Before.docs

\* C7 as stated: on an 'en' directory without images, process_directory fails
\* at the listing, moves nothing and does not create images.
C7_MissingImagesFailsAtListing ==
    (pc \in {"returned", "raised"} /\ ~Before.images) =>
        /\ pc = "raised"
        /\ error = "listdir"
        /\ moved = {}
        /\ ~Now.images

\* C7, amended: on an 'en' directory without images, os.makedirs creates
\* images together with archive, the listing succeeds with nothing to
\* archive, nothing is moved and the count reported is 0; the call fails only
\* when a .md file cannot be read.
C7_MissingImagesIsCreated ==
    (pc \notin {"idle", "ensure_archive"} /\ ~Before.images) =>
        /\ Now.images
        /\ DOMAIN Now.media = {"archive"}
        /\ Now.archive = EmptyDir
        /\ error # "listdir"
        /\ pc \notin {"list", "raised"} => all_files = {"archive"}
        /\ unreferenced_files = {}
        /\ moved = {}
        /\ pc = "raised" => error = "read"
        /\ pc = "returned" => moved_count = 0

C7_Witness ==
    /\ pc = "returned"
    /\ ~Before.images
    /\ Now.images
    /\ all_files = {"archive"}

\* a .md file under d that cannot be opened or decoded
Unreadable(d) == \E doc \in DocFilesUnder(pre, d) : ~doc.readable

\* C8: when a .md file under the language directory cannot be read,
\* process_directory raises before anything is moved, and main ends there:
\* the 'en' directories not yet reached are never processed.
C8_UnreadableDocumentAborts ==
    (pc # "idle" /\ Unreadable(en_directory)) =>
        /\ pc \in {"ensure_archive", "list", "scan", "raised"}
        /\ pc = "raised" => (error = "read" /\ main_pc \in {"walk", "crashed"})
        /\ moved = {}
        /\ unreferenced_files = {}
        /\ \A n \in DOMAIN Before.media : StillInMedia(n)
        /\ Now.archive = Before.archive
        /\ main_pc # "finished"
        /\ main_pc = "crashed" =>
             /\ pc = "raised"
             /\ exit_status = << 1 >>
             /\ calls = Len(log)
             /\ \A d \in pending :
                  /\ fs[d] = Initial[d]
                  /\ \A i \in 1..Len(log) : log[i].dir # d

\* the first directory could not be read; the other one is left unprocessed
C8_Witness ==
    /\ main_pc = "crashed"
    /\ error = "read"
    /\ Unreadable(en_directory)
    /\ DOMAIN Before.media \ {"archive", "banner.png"} # {}
    /\ pending # {}
    /\ \E d \in pending : DOMAIN fs[d].media \ {"archive", "banner.png"} # {}

\* C9: when the path given does not exist, main exits with status 1 after the
\* check: process_directory is never called and the file system is untouched.
C9_MissingRootExits ==
    (repo_directory = "missing" /\ main_pc \notin {"input", "check"}) =>
        /\ main_pc = "exited"
        /\ exit_status = << 1 >>
        /\ calls = 0
        /\ log = << >>
        /\ pc = "idle"
        /\ fs = pre
        /\ moved = {}

C9_Witness ==
    /\ repo_directory = "missing"
    /\ main_pc = "exited"
    /\ exit_status = << 1 >>
    /\ \E d \in Dirs : DOMAIN fs[d].media \ {"archive", "banner.png"} # {}

\* the literal lit stands somewhere in s
Occurs(s, lit) == \E i \in 1..Len(s) : At(s, i, lit)

\* name is what follows the first 'images/' of a reference written in s
WrittenAs(s, name) ==
    \/ Occurs(s, "](images/" \o name \o ")")
    \/ \E open, close \in {"'", "\""} :
         Occurs(s, "src=" \o open \o "images/" \o name \o close)

\* C10 as stated: no name extract_media_references returns starts with
\* 'images/'.
C10_NoNameKeepsPrefix ==
    \A name \in all_references : ~At(name, 1, "images/")

\* C10, amended: every name returned is the path of a reference less its
\* first 'images/'; it starts with 'images/' only for a reference written
\* images/images/...
C10_FirstPrefixStripped ==
    \A name \in all_references :
        /\ WrittenAs(document, name)
        /\ ~Occurs(name, "\n")
        /\ At(name, 1, "images/") => Occurs(document, "images/images/")

C10_Witness ==
    /\ Occurs(document, "](images/a.png)")
    /\ "a.png" \in all_references

====
